---- MODULE Spec2Model ----
(***************************************************************************)
(* Model of the schema bridge of express-backend-template:                 *)
(*   src/utils/zodToOpenAPI.js  (ZodToOpenAPI: type tree -> wire schema)   *)
(*   src/utils/routeDoc.js      (route declarations -> operations)         *)
(*                                                                         *)
(* JavaScript objects are records; a property that is not set is a field   *)
(* that is not in the record's DOMAIN.  Ordered mappings (an object's      *)
(* shape, a wire node's properties) are sequences of [key, value] entries  *)
(* in Object.entries order.  A JavaScript value in a position of dynamic   *)
(* type (a literal, an enum member, a default, additionalProperties) is a  *)
(* one-field record tagged with its typeof: [string |-> "a"],              *)
(* [number |-> 1], [boolean |-> TRUE].  A raised exception is the value    *)
(* TypeError, which every caller without a try/catch passes on.            *)
(***************************************************************************)
EXTENDS Integers, Sequences, FiniteSets, TLC

VARIABLES zodSchema, schema, config, route, responses, operation, paths, pc, routes, builds

vars == <<zodSchema, schema, config, route, responses, operation, paths, pc, routes, builds>>

-----------------------------------------------------------------------------
(* JavaScript values *)

Undefined == [undefined |-> TRUE]

Null == [null |-> TRUE]

EmptyObject == [k \in {} |-> TRUE]

TypeError == [raised |-> "TypeError"]

IsRaised(v) == "raised" \in DOMAIN v

Has(obj, f) == f \in DOMAIN obj

\* obj[f] = v on a copy of obj
Put(obj, f, v) == [k \in DOMAIN obj \cup {f} |-> IF k = f THEN v ELSE obj[k]]

\* if (cond) obj[f] = v
PutIf(obj, cond, f, v) == IF cond THEN Put(obj, f, v) ELSE obj

\* the statements Then after a call that returned v, unless the call raised
Try(v, Then(_)) == IF IsRaised(v) THEN TypeError ELSE Then(v)

\* { ...a, ...b } and Object.assign(a, b)
Assign(a, b) == [k \in DOMAIN a \cup DOMAIN b |-> IF k \in DOMAIN b THEN b[k] ELSE a[k]]

\* the truth value JavaScript gives an object reference or a tagged value
Truthy(v) ==
  /\ v # Undefined
  /\ v # Null
  /\ v # [boolean |-> FALSE]
  /\ v # [string |-> ""]
  /\ v # [number |-> 0]

\* obj.f is set and truthy, for a field holding an object or a tagged value
TruthyField(obj, f) == Has(obj, f) /\ Truthy(obj[f])

\* typeof of a tagged value
TypeOf(v) ==
  IF Has(v, "string") THEN "string"
  ELSE IF Has(v, "number") THEN "number"
  ELSE IF Has(v, "boolean") THEN "boolean"
  ELSE IF Has(v, "undefined") THEN "undefined"
  ELSE "object"

-----------------------------------------------------------------------------
(* ZodToOpenAPI *)

RECURSIVE convertStringChecks(_, _, _)
\* the for loop of convertString over checks[i..]
convertStringChecks(checks, i, acc) ==
  IF i > Len(checks) THEN acc
  ELSE LET check == checks[i]
           next ==
             CASE check.kind = "min" -> Put(acc, "minLength", check.value)
               [] check.kind = "max" -> Put(acc, "maxLength", check.value)
               [] check.kind = "length" ->
                    Put(Put(acc, "minLength", check.value), "maxLength", check.value)
               [] check.kind = "email" -> Put(acc, "format", "email")
               [] check.kind = "url" -> Put(acc, "format", "uri")
               [] check.kind = "uuid" -> Put(acc, "format", "uuid")
               [] check.kind \in {"cuid", "cuid2"} -> Put(acc, "format", "cuid")
               [] check.kind = "ulid" -> Put(acc, "format", "ulid")
               [] check.kind = "regex" -> Put(acc, "pattern", check.regex.source)
               [] check.kind = "datetime" -> Put(acc, "format", "date-time")
               [] check.kind = "date" -> Put(acc, "format", "date")
               [] check.kind = "time" -> Put(acc, "format", "time")
               [] check.kind = "ip" ->
                    Put(acc, "format",
                        IF Has(check, "version") /\ check.version = "v4" THEN "ipv4"
                        ELSE IF Has(check, "version") /\ check.version = "v6" THEN "ipv6"
                        ELSE "ip")
               [] OTHER -> acc
       IN convertStringChecks(checks, i + 1, next)

\* convertString that walks the checks from the last to the first
convertStringBackwards(z) ==
  convertStringChecks(IF Has(z._def, "checks")
                      THEN [i \in 1..Len(z._def.checks) |->
                              z._def.checks[Len(z._def.checks) + 1 - i]]
                      ELSE <<>>,
                      1, [type |-> "string"])

convertString(z) ==
  convertStringChecks(IF Has(z._def, "checks") THEN z._def.checks ELSE <<>>,
                      1, [type |-> "string"])

RECURSIVE numberChecks(_, _, _)
\* the for loop of getNumberConstraints over checks[i..]
numberChecks(checks, i, acc) ==
  IF i > Len(checks) THEN acc
  ELSE LET check == checks[i]
           exclusive == Has(check, "inclusive") /\ check.inclusive = FALSE
           next ==
             CASE check.kind = "min" ->
                    IF exclusive THEN Put(acc, "exclusiveMinimum", check.value)
                    ELSE Put(acc, "minimum", check.value)
               [] check.kind = "max" ->
                    IF exclusive THEN Put(acc, "exclusiveMaximum", check.value)
                    ELSE Put(acc, "maximum", check.value)
               [] check.kind = "int" -> Put(acc, "type", "integer")
               [] check.kind = "multipleOf" -> Put(acc, "multipleOf", check.value)
               [] OTHER -> acc
       IN numberChecks(checks, i + 1, next)

getNumberConstraints(z) ==
  numberChecks(IF Has(z._def, "checks") THEN z._def.checks ELSE <<>>, 1, EmptyObject)

\* convertNumber that spreads the constraints before the type
convertNumberTypeLast(z) == Assign(getNumberConstraints(z), [type |-> "number"])

convertNumber(z) == Assign([type |-> "number"], getNumberConstraints(z))

\* isOptional that does not count a default wrapper as optional
isOptionalWithoutDefault(z) ==
  IF ~Truthy(z) THEN TypeError
  ELSE IF Has(z, "_def") /\ Truthy(z._def) /\ Has(z._def, "typeName")
       THEN [boolean |-> z._def.typeName \in {"ZodOptional", "ZodNullable"}]
       ELSE [boolean |-> FALSE]

\* z._def?.typeName is one of the three modifier tags; raises on undefined/null
isOptional(z) ==
  IF ~Truthy(z) THEN TypeError
  ELSE IF Has(z, "_def") /\ Truthy(z._def) /\ Has(z._def, "typeName")
       THEN [boolean |-> z._def.typeName \in {"ZodOptional", "ZodNullable", "ZodDefault"}]
       ELSE [boolean |-> FALSE]

\* isMissing that also takes a definition record without a variant tag as missing
isMissingOrUntagged(z) ==
  ~Truthy(z) \/ ~TruthyField(z, "_def") \/ ~Has(z._def, "typeName")

\* line 26: the input is absent or carries no definition record
isMissing(z) == ~Truthy(z) \/ ~TruthyField(z, "_def")

\* line 27: the result for such an input
missingSchema == [type |-> "object"]

\* lines 149-150: the default arm of the switch
unknownSchema == [type |-> "string"]

\* optionalArm that marks the result nullable
optionalArmAsNullable(inner) == Put(inner, "nullable", TRUE)

\* lines 101-103: the inner conversion is the result
optionalArm(inner) == inner

\* nullableArm that forgets the mark
nullableArmUnmarked(inner) == inner

\* lines 105-108: schema.nullable = true on the inner conversion
nullableArm(inner) == Put(inner, "nullable", TRUE)

\* arrayArm that tests the counts themselves, so that a count of 0 is not copied
arrayArmPositiveCounts(items, def) ==
  PutIf(PutIf([type |-> "array", items |-> items],
              TruthyField(def, "minLength") /\ def.minLength.value # 0,
              "minItems", def.minLength.value),
        TruthyField(def, "maxLength") /\ def.maxLength.value # 0,
        "maxItems", def.maxLength.value)

\* lines 82-91: the array wire node around the converted element
arrayArm(items, def) ==
  PutIf(PutIf([type |-> "array", items |-> items],
              TruthyField(def, "minLength"), "minItems", def.minLength.value),
        TruthyField(def, "maxLength"), "maxItems", def.maxLength.value)

\* defaultArm without the catch
defaultArmUncaught(inner, defaultValue) ==
  IF Has(defaultValue, "returns") THEN Put(inner, "default", defaultValue.returns)
  ELSE TypeError

\* lines 110-117: try { schema.default = defaultValue() } catch {}
defaultArm(inner, defaultValue) ==
  IF Has(defaultValue, "returns") THEN Put(inner, "default", defaultValue.returns)
  ELSE inner

\* addDescription that keeps a description the result already has
addDescriptionUnlessSet(result, def) ==
  IF Has(def, "description") /\ def.description # "" /\ ~Has(result, "description")
  THEN Put(result, "description", def.description)
  ELSE result

\* lines 153-156: if (description) schema.description = description
addDescription(result, def) ==
  IF Has(def, "description") /\ def.description # ""
  THEN Put(result, "description", def.description)
  ELSE result

\* lines 276-290: the object wire node built from the loop's two accumulators
objectSchema(properties, required, def) ==
  PutIf(PutIf(PutIf([type |-> "object", properties |-> properties],
                    Len(required) > 0, "required", required),
              Has(def, "unknownKeys") /\ def.unknownKeys = "passthrough",
              "additionalProperties", [boolean |-> TRUE]),
        Has(def, "unknownKeys") /\ def.unknownKeys = "strict",
        "additionalProperties", [boolean |-> FALSE])

\* line 30: zodSchema._def.typeName, "undefined" when it is not set
typeNameOf(def) == IF Has(def, "typeName") THEN def.typeName ELSE "undefined"

RECURSIVE convert(_)
RECURSIVE convertEntries(_, _, _, _)

\* the for loop of convertObject over Object.entries(shape)[i..]
convertEntries(entries, i, properties, required) ==
  IF i > Len(entries) THEN [properties |-> properties, required |-> required]
  ELSE Try(convert(entries[i].value), LAMBDA converted :
         Try(isOptional(entries[i].value), LAMBDA optional :
           convertEntries(entries, i + 1,
                          Append(properties, [key |-> entries[i].key, value |-> converted]),
                          IF ~optional.boolean THEN Append(required, entries[i].key)
                          ELSE required)))

convertObject(z) ==
  Try(convertEntries(z._def.shape, 1, <<>>, <<>>), LAMBDA loop :
    objectSchema(loop.properties, loop.required, z._def))

\* the first conversion of list that raised, if any
firstRaised(results) ==
  IF \E i \in 1..Len(results) : IsRaised(results[i]) THEN TypeError ELSE [values |-> results]

\* list.map((n) => this.convert(n)), raising when a conversion raises
convertAll(list) == firstRaised([i \in 1..Len(list) |-> convert(list[i])])

\* lines 35-151: the switch on typeName
convertByType(z, def, typeName) ==
  CASE typeName = "ZodString" -> convertString(z)
    [] typeName = "ZodNumber" -> convertNumber(z)
    [] typeName = "ZodInt" -> Assign([type |-> "integer"], getNumberConstraints(z))
    [] typeName = "ZodBoolean" -> [type |-> "boolean"]
    [] typeName = "ZodDate" -> [type |-> "string", format |-> "date-time"]
    [] typeName = "ZodEnum" -> [type |-> "string", enum |-> def.values]
    [] typeName = "ZodNativeEnum" ->
         [type |-> "string", enum |-> [i \in 1..Len(def.values) |-> def.values[i].value]]
    [] typeName = "ZodLiteral" -> [type |-> TypeOf(def.value), enum |-> <<def.value>>]
    [] typeName = "ZodObject" -> convertObject(z)
    [] typeName = "ZodArray" -> Try(convert(def.type), LAMBDA items : arrayArm(items, def))
    [] typeName = "ZodRecord" ->
         Try(convert(def.valueType), LAMBDA valueSchema :
           [type |-> "object", additionalProperties |-> valueSchema])
    [] typeName = "ZodOptional" ->
         Try(convert(def.innerType), LAMBDA inner : optionalArm(inner))
    [] typeName = "ZodNullable" ->
         Try(convert(def.innerType), LAMBDA inner : nullableArm(inner))
    [] typeName = "ZodDefault" ->
         Try(convert(def.innerType), LAMBDA inner : defaultArm(inner, def.defaultValue))
    [] typeName = "ZodUnion" ->
         Try(convertAll(def.options), LAMBDA options : [oneOf |-> options.values])
    [] typeName = "ZodIntersection" ->
         Try(convertAll(<<def.left, def.right>>), LAMBDA both : [allOf |-> both.values])
    [] typeName = "ZodEffects" -> convert(def.schema)
    [] typeName \in {"ZodAny", "ZodUnknown"} -> EmptyObject
    [] typeName \in {"ZodVoid", "ZodUndefined"} -> [type |-> "null"]
    [] OTHER -> unknownSchema

convert(z) ==
  IF isMissing(z) THEN missingSchema
  ELSE Try(convertByType(z, z._def, typeNameOf(z._def)), LAMBDA result :
         addDescription(result, z._def))

-----------------------------------------------------------------------------
(* routeDoc: strings that are cut, joined or re-cased are sequences of          *)
(* one-character strings                                                     *)

LowerCaseLetters ==
  <<"a", "b", "c", "d", "e", "f", "g", "h", "i", "j", "k", "l", "m",
    "n", "o", "p", "q", "r", "s", "t", "u", "v", "w", "x", "y", "z">>

UpperCaseLetters ==
  <<"A", "B", "C", "D", "E", "F", "G", "H", "I", "J", "K", "L", "M",
    "N", "O", "P", "Q", "R", "S", "T", "U", "V", "W", "X", "Y", "Z">>

\* the character at from[j] replaced by to[j], any other character kept
Recase(c, from, to) ==
  IF \E j \in 1..Len(from) : from[j] = c
  THEN to[CHOOSE j \in 1..Len(from) : from[j] = c]
  ELSE c

toLowerCase(str) == [i \in 1..Len(str) |-> Recase(str[i], UpperCaseLetters, LowerCaseLetters)]

toUpperCase(str) == [i \in 1..Len(str) |-> Recase(str[i], LowerCaseLetters, UpperCaseLetters)]

\* str.slice(start, end) for start >= 0; a negative end counts from the end
slice(str, start, end) ==
  LET stop == IF end < 0 THEN (IF Len(str) + end < 0 THEN 0 ELSE Len(str) + end)
              ELSE (IF end > Len(str) THEN Len(str) ELSE end)
  IN IF start >= stop THEN <<>> ELSE SubSeq(str, start + 1, stop)

\* str.charAt(0): the empty string when there is no such character
charAt0(str) == IF Len(str) = 0 THEN <<>> ELSE <<str[1]>>

RECURSIVE split(_, _)
\* str.split(sep): the pieces between the occurrences of the character sep
split(str, sep) ==
  IF \A i \in 1..Len(str) : str[i] # sep THEN <<str>>
  ELSE LET at == CHOOSE i \in 1..Len(str) :
                   str[i] = sep /\ \A j \in 1..(i - 1) : str[j] # sep
       IN <<SubSeq(str, 1, at - 1)>> \o split(SubSeq(str, at + 1, Len(str)), sep)

RECURSIVE join(_)
\* list.join('')
join(list) == IF list = <<>> THEN <<>> ELSE Head(list) \o join(Tail(list))

\* a || b on string values that may be unset
OrElse(obj, f, other) == IF Has(obj, f) /\ obj[f] # <<>> THEN obj[f] ELSE other

\* line 41: description || summary, unset when both are
routeDescription(cfg) ==
  IF Has(cfg, "description") /\ cfg.description # <<>> THEN [description |-> cfg.description]
  ELSE IF Has(cfg, "summary") THEN [description |-> cfg.summary]
  ELSE EmptyObject

\* createRoute that keeps the method as it is given
createRouteMethodAsGiven(method, path, cfg) ==
  Assign(Assign([method |-> method,
                 path |-> path,
                 tags |-> IF Has(cfg, "tags") THEN cfg.tags ELSE <<>>,
                 auth |-> IF Has(cfg, "auth") THEN cfg.auth ELSE FALSE,
                 bodySchema |-> IF Has(cfg, "body") THEN cfg.body ELSE Null,
                 querySchema |-> IF Has(cfg, "query") THEN cfg.query ELSE Null,
                 paramsSchema |-> IF Has(cfg, "params") THEN cfg.params ELSE Null,
                 responseSchema |-> IF Has(cfg, "response") THEN cfg.response ELSE Null,
                 customResponses |-> IF Has(cfg, "responses") THEN cfg.responses
                                     ELSE EmptyObject],
                IF Has(cfg, "summary") THEN [summary |-> cfg.summary] ELSE EmptyObject),
         routeDescription(cfg))

\* lines 24-50
createRoute(method, path, cfg) ==
  Assign(Assign([method |-> toLowerCase(method),
                 path |-> path,
                 tags |-> IF Has(cfg, "tags") THEN cfg.tags ELSE <<>>,
                 auth |-> IF Has(cfg, "auth") THEN cfg.auth ELSE FALSE,
                 bodySchema |-> IF Has(cfg, "body") THEN cfg.body ELSE Null,
                 querySchema |-> IF Has(cfg, "query") THEN cfg.query ELSE Null,
                 paramsSchema |-> IF Has(cfg, "params") THEN cfg.params ELSE Null,
                 responseSchema |-> IF Has(cfg, "response") THEN cfg.response ELSE Null,
                 customResponses |-> IF Has(cfg, "responses") THEN cfg.responses
                                     ELSE EmptyObject],
                IF Has(cfg, "summary") THEN [summary |-> cfg.summary] ELSE EmptyObject),
         routeDescription(cfg))

\* lines 55-61: the helper of the given name, called with path and config
api(name, path, cfg) ==
  CASE name = <<"g", "e", "t">> -> createRoute(<<"G", "E", "T">>, path, cfg)
    [] name = <<"p", "o", "s", "t">> -> createRoute(<<"P", "O", "S", "T">>, path, cfg)
    [] name = <<"p", "u", "t">> -> createRoute(<<"P", "U", "T">>, path, cfg)
    [] name = <<"p", "a", "t", "c", "h">> -> createRoute(<<"P", "A", "T", "C", "H">>, path, cfg)
    [] name = <<"d", "e", "l", "e", "t", "e">> ->
         createRoute(<<"D", "E", "L", "E", "T", "E">>, path, cfg)
    [] OTHER -> TypeError

\* line 284: config.method?.toLowerCase() || 'get'
helperName(cfg) ==
  IF Has(cfg, "method") /\ cfg.method # <<>> THEN toLowerCase(cfg.method)
  ELSE <<"g", "e", "t">>

\* lines 283-284: AutoDocsGenerator.doc
doc(cfg) == api(helperName(cfg), cfg.path, cfg)

\* lines 142-145: the piece of the name a path segment gives
segmentName(p) ==
  IF Len(p) > 0 /\ p[1] = "{"
  THEN <<"B", "y">> \o toUpperCase(charAt0(slice(p, 1, -1))) \o slice(p, 2, -1)
  ELSE toUpperCase(charAt0(p)) \o slice(p, 1, Len(p))

\* line 140: path.split('/').filter(Boolean)
pathParts(path) == SelectSeq(split(path, "/"), LAMBDA p : p # <<>>)

\* lines 141-146: parts.map(...).join('')
joinedName(parts) == join([i \in 1..Len(parts) |-> segmentName(parts[i])])

\* lines 139-148
generateOperationId(method, path) == toLowerCase(method) \o joinedName(pathParts(path))

\* parameterOf that takes required from the required list at every location
parameterOfByRequiredList(entry, required, location) ==
  PutIf([name |-> entry.key,
         in |-> location,
         required |-> (\E i \in 1..Len(required) : required[i] = entry.key),
         schema |-> entry.value],
        Has(entry.value, "description") /\ entry.value.description # "",
        "description", entry.value.description)

\* lines 158-166: one parameter per entry of the converted properties
parameterOf(entry, required, location) ==
  PutIf([name |-> entry.key,
         in |-> location,
         required |-> (\E i \in 1..Len(required) : required[i] = entry.key)
                        \/ location = "path",
         schema |-> entry.value],
        Has(entry.value, "description") /\ entry.value.description # "",
        "description", entry.value.description)

\* lines 157-167: the parameters of a converted schema
parametersOf(openApiSchema, location) ==
  IF Has(openApiSchema, "properties")
  THEN [i \in 1..Len(openApiSchema.properties) |->
          parameterOf(openApiSchema.properties[i],
                      IF Has(openApiSchema, "required") THEN openApiSchema.required ELSE <<>>,
                      location)]
  ELSE <<>>

\* lines 153-170
generateParameters(z, location) ==
  Try(convert(z), LAMBDA openApiSchema : [list |-> parametersOf(openApiSchema, location)])

\* lines 242, 252
successProperty == [type |-> "boolean", example |-> TRUE]

\* generateResponseSchema that never converts the hint
generateResponseSchemaPlain(responseHint) ==
  [type |-> "object",
   properties |-> <<[key |-> "success", value |-> successProperty],
                    [key |-> "data", value |-> [type |-> "object"]]>>]


\* lines 239-255: the envelope around data
envelope(data) ==
  [type |-> "object",
   properties |-> <<[key |-> "success", value |-> successProperty],
                    [key |-> "data", value |-> data]>>]

\* lines 236-256
generateResponseSchema(responseHint) ==
  IF TypeOf(responseHint) = "object" /\ TruthyField(responseHint, "_def")
  THEN Try(convert(responseHint), LAMBDA data : envelope(data))
  ELSE envelope([type |-> "object"])

Ref(target) == [k \in {"$ref"} |-> target]

Json(content) == [k \in {"application/json"} |-> content]

\* successCode that knows no 204
successCodeCreatedOrOk(method) ==
  IF method = <<"p", "o", "s", "t">> THEN "201" ELSE "200"

\* line 179
successCode(method) ==
  IF method = <<"p", "o", "s", "t">> THEN "201"
  ELSE IF method = <<"d", "e", "l", "e", "t", "e">> THEN "204"
  ELSE "200"

\* lines 190-192: the schema of the success response
successSchema(r) ==
  IF Truthy(r.responseSchema) THEN generateResponseSchema(r.responseSchema)
  ELSE Ref("#/components/schemas/Success")

\* successResponse without the body-less case of DELETE
successResponseAlwaysContent(r) ==
  Try(successSchema(r), LAMBDA body :
    [description |-> "Successful operation", content |-> Json([schema |-> body])])

\* lines 181-196: the response stored under the success code
successResponse(r) ==
  IF r.method = <<"d", "e", "l", "e", "t", "e">> /\ ~Truthy(r.responseSchema)
  THEN [description |-> "Successfully deleted"]
  ELSE Try(successSchema(r), LAMBDA body :
         [description |-> "Successful operation", content |-> Json([schema |-> body])])

\* hasValidationError that asks for a method that takes a body as well
hasValidationErrorWithBodyMethod(r) ==
  /\ Truthy(r.bodySchema)
  /\ r.method \in {<<"p", "o", "s", "t">>, <<"p", "u", "t">>, <<"p", "a", "t", "c", "h">>}

\* line 209: the trigger of the 422 response
hasValidationError(r) == Truthy(r.bodySchema)

\* hasNotFound that is also triggered by a query schema
hasNotFoundOrQuery(r) == Truthy(r.paramsSchema) \/ Truthy(r.querySchema)

\* line 216: the trigger of the 404 response
hasNotFound(r) == Truthy(r.paramsSchema)

\* lines 198-225: the error responses added to the success response
errorResponses(r) ==
  Assign(Assign(Assign(IF r.auth
                       THEN [k \in {"401", "403"} |->
                               IF k = "401" THEN Ref("#/components/responses/UnauthorizedError")
                               ELSE Ref("#/components/responses/ForbiddenError")]
                       ELSE EmptyObject,
                       IF hasValidationError(r)
                       THEN [k \in {"422"} |-> Ref("#/components/responses/ValidationError")]
                       ELSE EmptyObject),
                IF hasNotFound(r)
                THEN [k \in {"404"} |-> Ref("#/components/responses/NotFoundError")]
                ELSE EmptyObject),
         [k \in {"500"} |-> Ref("#/components/responses/ServerError")])

\* lines 176-225: the local responses before the overrides are assigned
computedResponses(r) ==
  Try(successResponse(r), LAMBDA success :
    Assign([k \in {successCode(r.method)} |-> success], errorResponses(r)))

\* applyOverrides in which a computed entry wins over an override
applyOverridesComputedFirst(computed, customResponses) ==
  IF Truthy(customResponses) THEN Assign(customResponses, computed) ELSE computed

\* line 228: Object.assign(responses, route.customResponses)
applyOverrides(computed, customResponses) ==
  IF Truthy(customResponses) THEN Assign(computed, customResponses) ELSE computed

\* lines 175-231
generateResponses(r) ==
  Try(computedResponses(r), LAMBDA computed : applyOverrides(computed, r.customResponses))

\* line 92
operationSummary(r) ==
  OrElse(r, "summary", toUpperCase(r.method) \o <<" ">> \o r.path)

\* lines 91-101: the operation before parameters, request body and responses
operationHead(r) ==
  PutIf(PutIf([summary |-> operationSummary(r),
               tags |-> IF Len(r.tags) > 0 THEN r.tags ELSE <<"Default">>,
               operationId |-> generateOperationId(r.method, r.path)],
              Has(r, "description"), "description", r.description),
        r.auth, "security", <<[BearerAuth |-> <<>>]>>)

\* lines 106-108, 110-112: the parameters a schema contributes, none when it is unset
parametersFrom(z, location) ==
  IF Truthy(z) THEN generateParameters(z, location) ELSE [list |-> <<>>]

\* hasRequestBody that looks at the body schema alone
hasRequestBodyWhateverMethod(r) == Truthy(r.bodySchema)

\* line 119: the route takes a request body
hasRequestBody(r) ==
  /\ Truthy(r.bodySchema)
  /\ r.method \in {<<"p", "o", "s", "t">>, <<"p", "u", "t">>, <<"p", "a", "t", "c", "h">>}

\* lines 119-128: the converted body schema, unset when the route takes no body
requestBodySchema(r) == IF hasRequestBody(r) THEN convert(r.bodySchema) ELSE Undefined

\* lines 90-134
generateOperation(r) ==
  Try(parametersFrom(r.paramsSchema, "path"), LAMBDA pathParameters :
    Try(parametersFrom(r.querySchema, "query"), LAMBDA queryParameters :
      Try(requestBodySchema(r), LAMBDA body :
        Try(generateResponses(r), LAMBDA result :
          Put(PutIf(PutIf(operationHead(r),
                          Len(pathParameters.list \o queryParameters.list) > 0,
                          "parameters", pathParameters.list \o queryParameters.list),
                    hasRequestBody(r), "requestBody",
                    [required |-> TRUE, content |-> Json([schema |-> body])]),
              "responses", result)))))

\* Object.assign that also assigns the target's properties to the source
objectAssignBothWays(target, source) ==
  [target |-> Assign(target, source), source |-> Assign(source, target)]

\* line 228: the two arguments of Object.assign(target, source) after the call
objectAssign(target, source) == [target |-> Assign(target, source), source |-> source]

\* routeAfter for Object.assign(route.customResponses, responses)
routeAfterAssignedInto(r) ==
  Put(r, "customResponses", Assign(r.customResponses, computedResponses(r)))

\* lines 175-231: the route after generateResponses(route); its only statement
\* that is handed an object of the route is the Object.assign of line 228
routeAfter(r) ==
  Put(r, "customResponses", objectAssign(computedResponses(r), r.customResponses).source)

\* addOperation that keeps the operation a path and method already have
addOperationUnlessPresent(docs, r, op) ==
  IF Has(docs, r.path) /\ Has(docs[r.path], r.method) THEN docs
  ELSE Put(docs, r.path,
           Put(IF Has(docs, r.path) THEN docs[r.path] ELSE EmptyObject, r.method, op))

\* lines 77-81: the operation of route r put under its path and method
addOperation(docs, r, op) ==
  Put(docs, r.path, Put(IF Has(docs, r.path) THEN docs[r.path] ELSE EmptyObject, r.method, op))

RECURSIVE generateDocsFrom(_, _, _)
\* lines 76-82: the loop over the routes from the i-th on
generateDocsFrom(routeList, i, docs) ==
  IF i > Len(routeList) THEN docs
  ELSE Try(generateOperation(routeList[i]), LAMBDA op :
         generateDocsFrom(routeList, i + 1, addOperation(docs, routeList[i], op)))

\* lines 73-85
generateDocs(routeList) == generateDocsFrom(routeList, 1, EmptyObject)

-----------------------------------------------------------------------------
(* The type trees the converter is run on *)

\* wrapper nesting above a leaf
MaxDepth == 2

\* declared properties of an object node
MaxProps == 2

Node(typeName) == [_def |-> [typeName |-> typeName]]

With(z, f, v) == [_def |-> Put(z._def, f, v)]

StringNode(checks) == With(Node("ZodString"), "checks", checks)

NumberNode(checks) == With(Node("ZodNumber"), "checks", checks)

OptionalNode(inner) == With(Node("ZodOptional"), "innerType", inner)

NullableNode(inner) == With(Node("ZodNullable"), "innerType", inner)

DefaultNode(inner, defaultValue) ==
  With(With(Node("ZodDefault"), "innerType", inner), "defaultValue", defaultValue)

EffectsNode(inner) == With(Node("ZodEffects"), "schema", inner)

ArrayNode(element) ==
  With(With(With(Node("ZodArray"), "type", element), "minLength", Null), "maxLength", Null)

UnionNode(options) == With(Node("ZodUnion"), "options", options)

ObjectNode(shape) == With(With(Node("ZodObject"), "shape", shape), "unknownKeys", "strip")

\* a plain documentation object: no definition record
PlainHint == [token |-> [string |-> "string"]]

\* inputs that are absent or carry no definition record
MissingNodes == {Undefined, Null, PlainHint, [_def |-> Null]}

\* the node alone and the node carrying each description of ds
Described(S, ds) == S \cup {With(z, "description", d) : z \in S, d \in ds}

Leaves ==
  Described({ StringNode(<<>>),
              StringNode(<<[kind |-> "min", value |-> 8], [kind |-> "max", value |-> 64],
                           [kind |-> "email"]>>),
              NumberNode(<<[kind |-> "int"]>>),
              Node("ZodBoolean"),
              Node("ZodAny"),
              Node("ZodBigInt"),
              [_def |-> EmptyObject] }, {"d1"})
  \cup MissingNodes

\* every one-level wrapper of a node of S, with and without its own description
Wrappers(S) ==
  Described({OptionalNode(z) : z \in S}
            \cup {NullableNode(z) : z \in S}
            \cup {DefaultNode(z, [returns |-> [string |-> "v"]]) : z \in S}
            \cup {DefaultNode(z, [throws |-> TRUE]) : z \in S}
            \cup {EffectsNode(z) : z \in S}
            \cup {ArrayNode(z) : z \in S}, {"d2"})

\* the nodes of S and their one-level wrappers
Wrapped(S) == S \cup Wrappers(S)

RECURSIVE Chains(_)
\* the leaves under at most depth wrappers
Chains(depth) == IF depth = 0 THEN Leaves ELSE Wrapped(Chains(depth - 1))

\* the nodes declared as properties and offered as union alternatives
Members ==
  { StringNode(<<>>),
    With(Node("ZodBoolean"), "description", "d1"),
    OptionalNode(StringNode(<<>>)),
    NullableNode(Node("ZodBoolean")),
    DefaultNode(StringNode(<<>>), [returns |-> [string |-> "v"]]),
    EffectsNode(OptionalNode(StringNode(<<>>))),
    DefaultNode(OptionalNode(StringNode(<<>>)), [throws |-> TRUE]),
    Node("ZodBigInt"),
    PlainHint,
    Undefined }

PropertyNames == <<"b", "a", "c">>

RECURSIVE Shapes(_)
\* the shapes of n properties, named in the order of PropertyNames
Shapes(n) ==
  IF n = 0 THEN {<<>>}
  ELSE {Append(shape, [key |-> PropertyNames[((n - 1) % Len(PropertyNames)) + 1], value |-> m]) :
          shape \in Shapes(n - 1), m \in Members}

Objects ==
  LET plain == UNION {{ObjectNode(shape) : shape \in Shapes(n)} : n \in 0..MaxProps}
  IN plain \cup {With(z, "unknownKeys", "strict") : z \in {ObjectNode(shape) : shape \in Shapes(1)}}
           \cup {With(z, "unknownKeys", "passthrough") : z \in {ObjectNode(shape) : shape \in Shapes(1)}}

Unions == UNION {{UnionNode(<<m1, m2>>) : m1 \in Members} : m2 \in Members}

Composites == Objects \cup Unions

\* checks of a string or number node
MaxChecks == 2

StringChecks ==
  { [kind |-> "min", value |-> 8], [kind |-> "min", value |-> 3], [kind |-> "max", value |-> 64],
    [kind |-> "length", value |-> 5], [kind |-> "email"], [kind |-> "url"], [kind |-> "uuid"],
    [kind |-> "cuid2"], [kind |-> "regex", regex |-> [source |-> "^a"]],
    [kind |-> "datetime"], [kind |-> "ip", version |-> "v6"], [kind |-> "ip"],
    [kind |-> "trim"] }

NumberChecks ==
  { [kind |-> "min", value |-> 1, inclusive |-> TRUE],
    [kind |-> "min", value |-> 2, inclusive |-> FALSE],
    [kind |-> "min", value |-> 0],
    [kind |-> "max", value |-> 9, inclusive |-> TRUE],
    [kind |-> "max", value |-> 10, inclusive |-> FALSE],
    [kind |-> "int"], [kind |-> "multipleOf", value |-> 5], [kind |-> "finite"] }

RECURSIVE CheckLists(_, _)
\* the lists of n checks
CheckLists(checks, n) ==
  IF n = 0 THEN {<<>>}
  ELSE {Append(list, check) : list \in CheckLists(checks, n - 1), check \in checks}

StringNodes ==
  {StringNode(checks) : checks \in UNION {CheckLists(StringChecks, n) : n \in 0..MaxChecks}}

NumberNodes ==
  UNION { {NumberNode(checks), With(Node("ZodInt"), "checks", checks)} :
            checks \in UNION {CheckLists(NumberChecks, n) : n \in 0..MaxChecks} }
  \cup {Node("ZodNumber"), Node("ZodInt")}

\* the item counts an array declares: none, zero or more
ItemCounts == {Null, [value |-> 0], [value |-> 2]}

ArrayNodes ==
  { With(With(ArrayNode(element), "minLength", min), "maxLength", max) :
      element \in {StringNode(<<>>), With(Node("ZodBoolean"), "description", "d1"),
                   ArrayNode(Node("ZodAny"))},
      min \in ItemCounts, max \in ItemCounts }

\* the set S with its elements listed, so that membership in it is a lookup
Enumerated(S) == {z \in S : TRUE}

\* modifiers around a node
MaxModifiers == 3

\* the nodes the modifier chains are built around
ModifierBases ==
  { StringNode(<<>>), With(Node("ZodBoolean"), "description", "d1"),
    NumberNode(<<[kind |-> "int"]>>), ArrayNode(StringNode(<<>>)) }

\* every node of S under one modifier without a description
Modified(S) ==
  {OptionalNode(z) : z \in S}
  \cup ({NullableNode(z) : z \in S}
        \cup {DefaultNode(z, [returns |-> [string |-> "v"]]) : z \in S})

RECURSIVE ModifierChains(_)
\* the bases under at most n modifiers
ModifierChains(n) ==
  IF n = 0 THEN ModifierBases
  ELSE ModifierBases \cup Enumerated(Modified(ModifierChains(n - 1)))

\* the inputs of convert, with wrapper chains up to depth
TypeNodes(depth) ==
  Enumerated(Chains(depth))
  \cup (Enumerated(Wrappers(Composites))
        \cup (Enumerated(ModifierChains(MaxModifiers))
              \cup (Composites \cup (StringNodes \cup (NumberNodes \cup ArrayNodes)))))

-----------------------------------------------------------------------------
(* Running the converter *)

Init ==
  /\ zodSchema \in TypeNodes(MaxDepth)
  /\ schema = Undefined
  /\ config = Undefined
  /\ route = Undefined
  /\ responses = Undefined
  /\ operation = Undefined
  /\ paths = Undefined
  /\ routes = Undefined
  /\ builds = Undefined
  /\ pc = "start"

\* ZodToOpenAPI.convert(zodSchema)
Convert ==
  /\ pc = "start"
  /\ schema' = convert(zodSchema)
  /\ pc' = "converted"
  /\ UNCHANGED <<zodSchema, config, route, responses, operation, paths, routes, builds>>

Next == Convert

Spec == Init /\ [][Next]_vars

-----------------------------------------------------------------------------
(* The route declarations the aggregator is run on *)

Methods ==
  { <<"G", "E", "T">>, <<"P", "O", "S", "T">>, <<"P", "U", "T">>,
    <<"P", "A", "T", "C", "H">>, <<"D", "E", "L", "E", "T", "E">> }

Paths ==
  { <<"/", "u", "s", "e", "r", "s">>,
    <<"/", "u", "s", "e", "r", "s", "/", "{", "i", "d", "}">> }

BodySchema ==
  ObjectNode(<<[key |-> "email", value |-> StringNode(<<[kind |-> "email"]>>)],
               [key |-> "name", value |-> OptionalNode(StringNode(<<>>))]>>)

QuerySchema ==
  ObjectNode(<<[key |-> "page", value |-> OptionalNode(NumberNode(<<[kind |-> "int"]>>))],
               [key |-> "q", value |-> StringNode(<<>>)]>>)

ParamsSchema ==
  ObjectNode(<<[key |-> "id",
                value |-> With(StringNode(<<[kind |-> "uuid"]>>), "description", "d1")],
               [key |-> "tab", value |-> OptionalNode(StringNode(<<>>))]>>)

ResponseSchema ==
  ObjectNode(<<[key |-> "id", value |-> StringNode(<<>>)]>>)

\* a caller-supplied response, as in the route table of config/swagger.js
CustomResponse ==
  [description |-> "Custom",
   content |-> Json([schema |-> Ref("#/components/schemas/AuthResponse")])]

Overrides ==
  { [k \in keys |-> CustomResponse] :
      keys \in {{"422"}, {"200"}, {"204"}, {"201", "409"}} }

\* segments of a path template
MaxSegments == 3

\* two literals, a one-letter literal, a placeholder, an empty segment (a doubled
\* or trailing slash) and a placeholder followed by a suffix
Segments ==
  { <<"u", "s", "e", "r", "s">>, <<"r", "o", "l", "e">>, <<"x">>, <<"{", "i", "d", "}">>, <<>>,
    <<"{", "i", "d", "}", "x">> }

RECURSIVE TemplatesOf(_)
\* the path templates of n segments, each after a slash
TemplatesOf(n) ==
  IF n = 0 THEN {<<>>}
  ELSE {template \o <<"/">> \o segment : template \in TemplatesOf(n - 1), segment \in Segments}

Templates == UNION {TemplatesOf(n) : n \in 1..MaxSegments}

\* declarations that set nothing but the method and the path
PathConfigs == {[method |-> m, path |-> p] : m \in Methods, p \in Templates}

\* the ways to leave the field f of a config unset or to set it to one of values
Given(f, values) == {EmptyObject} \cup {[k \in {f} |-> v] : v \in values}

FullConfigs ==
  { Assign([method |-> m, path |-> p],
      Assign(summary, Assign(description, Assign(tags, Assign(auth, Assign(body,
        Assign(query, Assign(params, Assign(response, overrides))))))))) :
      m \in Methods, p \in Paths,
      summary \in Given("summary", {<<"L", "i", "s", "t">>}),
      description \in Given("description", {<<"A", "l", "l">>}),
      tags \in Given("tags", {<<"Users">>}),
      auth \in Given("auth", {TRUE}),
      body \in Given("body", {BodySchema}),
      query \in Given("query", {QuerySchema}),
      params \in Given("params", {ParamsSchema}),
      response \in Given("response", {ResponseSchema, PlainHint, [string |-> "User"]}),
      overrides \in Given("responses", Overrides) }

\* methods as a caller of doc may write them
CaseMethods ==
  { <<"p", "o", "s", "t">>, <<"P", "o", "s", "t">>, <<"g", "e", "t">>, <<"p", "U", "t">>,
    <<"P", "a", "t", "c", "h">>, <<"D", "e", "l", "e", "t", "e">>, <<>> }

\* declarations for doc: the method in any case or left out
CaseConfigs ==
  { Assign([path |-> p], Assign(method, Assign(auth, Assign(body, params)))) :
      p \in Paths,
      method \in Given("method", CaseMethods),
      auth \in Given("auth", {TRUE}),
      body \in Given("body", {BodySchema}),
      params \in Given("params", {ParamsSchema}) }

Configs == FullConfigs \cup PathConfigs \cup CaseConfigs

-----------------------------------------------------------------------------
(* Running the aggregator *)

RouteInit ==
  /\ zodSchema = Undefined
  /\ schema = Undefined
  /\ config \in Configs
  /\ route = Undefined
  /\ responses = Undefined
  /\ operation = Undefined
  /\ paths = Undefined
  /\ routes = Undefined
  /\ builds = Undefined
  /\ pc = "start"

\* api.get / post / put / patch / delete (path, config)
CreateRoute ==
  /\ pc = "start"
  /\ config # Undefined
  /\ Has(config, "method")
  /\ config.method \in Methods
  /\ route' = api(toLowerCase(config.method), config.path, config)
  /\ pc' = "declared"
  /\ UNCHANGED <<zodSchema, schema, config, responses, operation, paths, routes, builds>>

\* AutoDocsGenerator.doc(config)
Doc ==
  /\ pc = "start"
  /\ config # Undefined
  /\ route' = doc(config)
  /\ pc' = "declared"
  /\ UNCHANGED <<zodSchema, schema, config, responses, operation, paths, routes, builds>>

\* generateDocs over the table of the one declared route, keeping the operation
\* of the route and generateResponses' local responses as it is before the
\* overrides are assigned
GenerateOperation ==
  /\ pc = "declared"
  /\ responses' = computedResponses(route)
  /\ operation' = generateOperation(route)
  /\ paths' = generateDocs(<<route>>)
  /\ pc' = "generated"
  /\ UNCHANGED <<zodSchema, schema, config, route, routes, builds>>

RouteNext == CreateRoute \/ Doc \/ GenerateOperation

RouteSpec == RouteInit /\ [][RouteNext]_vars

-----------------------------------------------------------------------------
(* Document builds over one route table *)

\* routes of a table
MaxRoutes == 2

\* declarations that share a path, that share a path and a method, that differ
\* in the path only by a placeholder, and one with overrides of computed keys
TableRoutes ==
  { api(<<"g", "e", "t">>, <<"/", "u", "s", "e", "r", "s">>,
        [summary |-> <<"L", "i", "s", "t">>, query |-> QuerySchema]),
    api(<<"g", "e", "t">>, <<"/", "u", "s", "e", "r", "s">>,
        [summary |-> <<"A", "l", "l">>, auth |-> TRUE]),
    api(<<"p", "o", "s", "t">>, <<"/", "u", "s", "e", "r", "s">>,
        [body |-> BodySchema,
         responses |-> [k \in {"201", "409"} |-> CustomResponse]]),
    api(<<"g", "e", "t">>, <<"/", "u", "s", "e", "r", "s", "/", "{", "i", "d", "}">>,
        [params |-> ParamsSchema, response |-> ResponseSchema]),
    api(<<"g", "e", "t">>, <<"/", "u", "s", "e", "r", "s", "/", "b", "y", "I", "d">>,
        EmptyObject),
    api(<<"d", "e", "l", "e", "t", "e">>, <<"/", "u", "s", "e", "r", "s", "/", "{", "i", "d", "}">>,
        [params |-> ParamsSchema, auth |-> TRUE,
         responses |-> [k \in {"404"} |-> CustomResponse]]) }

RECURSIVE TablesOf(_)
\* the route tables of n routes
TablesOf(n) ==
  IF n = 0 THEN {<<>>}
  ELSE {Append(table, r) : table \in TablesOf(n - 1), r \in TableRoutes}

RouteTables == UNION {TablesOf(n) : n \in 0..MaxRoutes}

\* the callers of generateDocs
Callers == {"a", "b"}

BuildInit ==
  /\ zodSchema = Undefined
  /\ schema = Undefined
  /\ config = Undefined
  /\ route = Undefined
  /\ responses = Undefined
  /\ operation = Undefined
  /\ paths = Undefined
  /\ pc = "tabled"
  /\ routes \in RouteTables
  /\ builds = [c \in Callers |-> [pc |-> "idle", i |-> 0, paths |-> Undefined]]

\* line 74: a caller enters generateDocs(routes)
StartBuild(c) ==
  /\ builds # Undefined
  /\ builds[c].pc = "idle"
  /\ builds' = [builds EXCEPT ![c] = [pc |-> "loop", i |-> 1, paths |-> EmptyObject]]
  /\ UNCHANGED <<zodSchema, schema, config, route, responses, operation, paths, pc, routes>>

\* lines 76-82: one turn of the caller's loop, on the route at its position
BuildStep(c) ==
  /\ builds # Undefined
  /\ builds[c].pc = "loop"
  /\ builds[c].i <= Len(routes)
  /\ builds' = [builds EXCEPT ![c] =
                  [pc |-> "loop",
                   i |-> builds[c].i + 1,
                   paths |-> addOperation(builds[c].paths, routes[builds[c].i],
                                          generateOperation(routes[builds[c].i]))]]
  /\ routes' = [routes EXCEPT ![builds[c].i] = routeAfter(routes[builds[c].i])]
  /\ UNCHANGED <<zodSchema, schema, config, route, responses, operation, paths, pc>>

\* line 84: return paths
FinishBuild(c) ==
  /\ builds # Undefined
  /\ builds[c].pc = "loop"
  /\ builds[c].i > Len(routes)
  /\ builds' = [builds EXCEPT ![c].pc = "done"]
  /\ UNCHANGED <<zodSchema, schema, config, route, responses, operation, paths, pc, routes>>

BuildNext == \E c \in Callers : StartBuild(c) \/ BuildStep(c) \/ FinishBuild(c)

BuildSpec == BuildInit /\ [][BuildNext]_vars

-----------------------------------------------------------------------------
(* Properties of the converter *)

Converted == pc = "converted"

\* the input carries a definition record with the variant tag t
Tagged(z, t) == ~isMissing(z) /\ Has(z._def, "typeName") /\ z._def.typeName = t

\* the input carries a non-empty description of its own
OwnDescription(z) == Has(z._def, "description") /\ z._def.description # ""

\* C1 as stated: converting an optional wrapper around N gives exactly convert(N).
C1_OptionalEqualsInner ==
  (Converted /\ Tagged(zodSchema, "ZodOptional"))
    => schema = convert(zodSchema._def.innerType)

\* C1 amended: converting an optional wrapper around N gives convert(N) when the
\* wrapper carries no description of its own, and convert(N) with its description
\* field set to the wrapper's description when it carries one.
C1_OptionalEqualsInnerUpToDescription ==
  (Converted /\ Tagged(zodSchema, "ZodOptional"))
    => LET inner == convert(zodSchema._def.innerType)
       IN IF IsRaised(inner) THEN IsRaised(schema)
          ELSE IF OwnDescription(zodSchema)
          THEN /\ DOMAIN schema = DOMAIN inner \cup {"description"}
               /\ schema.description = zodSchema._def.description
               /\ \A f \in DOMAIN inner \ {"description"} : schema[f] = inner[f]
          ELSE schema = inner

\* an optional wrapper with its own description around a node with another one
C1_Witness ==
  /\ Converted
  /\ zodSchema = With(OptionalNode(With(StringNode(<<>>), "description", "d1")),
                      "description", "d2")
  /\ schema = [type |-> "string", description |-> "d2"]

\* C2 as stated: converting a nullable wrapper around N gives convert(N) with
\* nullable set to true and every other field as in convert(N).
C2_NullableOnlyAddsNullable ==
  (Converted /\ Tagged(zodSchema, "ZodNullable"))
    => LET inner == convert(zodSchema._def.innerType)
       IN IF IsRaised(inner) THEN IsRaised(schema)
          ELSE /\ DOMAIN schema = DOMAIN inner \cup {"nullable"}
               /\ schema.nullable = TRUE
               /\ \A f \in DOMAIN inner \ {"nullable"} : schema[f] = inner[f]

\* C2 amended: converting a nullable wrapper around N gives convert(N) with
\* nullable set to true and, when the wrapper carries a description of its own,
\* description set to that description; every other field is as in convert(N).
C2_NullableAddsNullableAndOwnDescription ==
  (Converted /\ Tagged(zodSchema, "ZodNullable"))
    => LET inner == convert(zodSchema._def.innerType)
           written == IF OwnDescription(zodSchema) THEN {"nullable", "description"}
                      ELSE {"nullable"}
       IN IF IsRaised(inner) THEN IsRaised(schema)
          ELSE /\ DOMAIN schema = DOMAIN inner \cup written
               /\ schema.nullable = TRUE
               /\ OwnDescription(zodSchema)
                    => schema.description = zodSchema._def.description
               /\ \A f \in DOMAIN inner \ written : schema[f] = inner[f]

\* a nullable wrapper without a description around a constrained, described string
C2_Witness ==
  /\ Converted
  /\ Tagged(zodSchema, "ZodNullable")
  /\ ~OwnDescription(zodSchema)
  /\ schema = [type |-> "string", minLength |-> 8, maxLength |-> 64, format |-> "email",
               description |-> "d1", nullable |-> TRUE]

\* the declared names whose own node is not tagged optional, nullable or default
RECURSIVE RequiredNames(_, _)
RequiredNames(shape, i) ==
  IF i > Len(shape) THEN <<>>
  ELSE LET own == shape[i].value
           modifier == \/ Tagged(own, "ZodOptional")
                       \/ Tagged(own, "ZodNullable")
                       \/ Tagged(own, "ZodDefault")
       IN (IF modifier THEN <<>> ELSE <<shape[i].key>>) \o RequiredNames(shape, i + 1)

\* C3: the required list of a converted object node is the declared property
\* names, in declaration order, whose own node (one wrapper level) is not
\* optional, nullable or default; required is absent when there is none.
C3_RequiredIsOneLevelNonModifiers ==
  (Converted /\ Tagged(zodSchema, "ZodObject") /\ ~IsRaised(schema))
    => LET expected == RequiredNames(zodSchema._def.shape, 1)
       IN IF expected = <<>> THEN ~Has(schema, "required")
          ELSE Has(schema, "required") /\ schema.required = expected

\* b is an effects wrapper around an optional (required: one level only), a has a default
C3_Witness ==
  /\ Converted
  /\ zodSchema = ObjectNode(<<[key |-> "b", value |-> EffectsNode(OptionalNode(StringNode(<<>>)))],
                              [key |-> "a", value |-> DefaultNode(StringNode(<<>>),
                                                          [returns |-> [string |-> "v"]])]>>)
  /\ schema.required = <<"b">>
  /\ Len(schema.properties) = 2

\* C4: convert returns a wire node for every tree, also one holding an absent or
\* malformed node or an unrecognized variant, which converts to {type:"string"}.
C4_ConvertIsTotal ==
  Converted
    => /\ ~IsRaised(schema)
       /\ (Tagged(zodSchema, "ZodBigInt") /\ ~OwnDescription(zodSchema))
            => schema = [type |-> "string"]

\* the input has no variant tag: absent, no definition record, or an untagged one
Untagged(z) == isMissing(z) \/ ~Has(z._def, "typeName")

WithProduced(inner, defaultValue) ==
  IF Has(defaultValue, "returns") THEN Put(inner, "default", defaultValue.returns)
  ELSE inner

\* C16 as stated, for an inner node N that converts: a default wrapper whose
\* producer raises converts, without raising, to exactly convert(N); one whose
\* producer returns v converts to convert(N) with default set to v.
C16_DefaultProducer ==
  (/\ Converted
   /\ Tagged(zodSchema, "ZodDefault")
   /\ ~IsRaised(convert(zodSchema._def.innerType)))
    => /\ ~IsRaised(schema)
       /\ schema = WithProduced(convert(zodSchema._def.innerType), zodSchema._def.defaultValue)

\* C16 amended: a raise of the producer is never propagated; the result is
\* convert(N), with default set to v when the producer returns v and without a
\* default of the wrapper's when it raises, and with description set to the
\* wrapper's own description when it carries one; convert raises only when
\* convert(N) does.
C16_DefaultProducerUpToDescription ==
  (Converted /\ Tagged(zodSchema, "ZodDefault"))
    => LET inner == convert(zodSchema._def.innerType)
       IN IF IsRaised(inner) THEN IsRaised(schema)
          ELSE /\ ~IsRaised(schema)
               /\ schema =
                    (IF OwnDescription(zodSchema)
                     THEN Put(WithProduced(inner, zodSchema._def.defaultValue),
                              "description", zodSchema._def.description)
                     ELSE WithProduced(inner, zodSchema._def.defaultValue))

\* a raising producer around a constrained, described string: the inner
\* conversion and no default
C16_Witness ==
  /\ Converted
  /\ Tagged(zodSchema, "ZodDefault")
  /\ Has(zodSchema._def.defaultValue, "throws")
  /\ ~OwnDescription(zodSchema)
  /\ schema = [type |-> "string", minLength |-> 8, maxLength |-> 64, format |-> "email",
               description |-> "d1"]

\* C17: a node that carries a description converts to a wire node whose
\* description is that node's own description, whatever its variant and
\* whatever description the conversion of an inner node brought along.
C17_OwnDescriptionCopied ==
  (/\ Converted
   /\ ~isMissing(zodSchema)
   /\ OwnDescription(zodSchema)
   /\ ~IsRaised(schema))
    => /\ Has(schema, "description")
       /\ schema.description = zodSchema._def.description

\* an effects wrapper described d2 around a node described d1
C17_Witness ==
  /\ Converted
  /\ Tagged(zodSchema, "ZodEffects")
  /\ OwnDescription(zodSchema)
  /\ zodSchema._def.description = "d2"
  /\ Tagged(zodSchema._def.schema, "ZodBoolean")
  /\ OwnDescription(zodSchema._def.schema)
  /\ schema = [type |-> "boolean", description |-> "d2"]

\* the fields a string check writes
StringWrites(check) ==
  CASE check.kind = "min" -> [minLength |-> check.value]
    [] check.kind = "max" -> [maxLength |-> check.value]
    [] check.kind = "length" -> [minLength |-> check.value, maxLength |-> check.value]
    [] check.kind = "email" -> [format |-> "email"]
    [] check.kind = "url" -> [format |-> "uri"]
    [] check.kind = "uuid" -> [format |-> "uuid"]
    [] check.kind = "cuid" -> [format |-> "cuid"]
    [] check.kind = "cuid2" -> [format |-> "cuid"]
    [] check.kind = "ulid" -> [format |-> "ulid"]
    [] check.kind = "datetime" -> [format |-> "date-time"]
    [] check.kind = "date" -> [format |-> "date"]
    [] check.kind = "time" -> [format |-> "time"]
    [] check.kind = "ip" /\ ~Has(check, "version") -> [format |-> "ip"]
    [] check.kind = "ip" /\ Has(check, "version") ->
         [format |-> IF check.version = "v4" THEN "ipv4"
                     ELSE IF check.version = "v6" THEN "ipv6" ELSE "ip"]
    [] check.kind = "regex" -> [pattern |-> check.regex.source]
    [] OTHER -> EmptyObject

\* the fields a number check writes
NumberWrites(check) ==
  CASE check.kind = "min" /\ Has(check, "inclusive") /\ check.inclusive = FALSE ->
         [exclusiveMinimum |-> check.value]
    [] check.kind = "min" /\ ~(Has(check, "inclusive") /\ check.inclusive = FALSE) ->
         [minimum |-> check.value]
    [] check.kind = "max" /\ Has(check, "inclusive") /\ check.inclusive = FALSE ->
         [exclusiveMaximum |-> check.value]
    [] check.kind = "max" /\ ~(Has(check, "inclusive") /\ check.inclusive = FALSE) ->
         [maximum |-> check.value]
    [] check.kind = "multipleOf" -> [multipleOf |-> check.value]
    [] OTHER -> EmptyObject

\* the checks of the converted node
DeclaredChecks == IF Has(zodSchema._def, "checks") THEN zodSchema._def.checks ELSE <<>>

\* the positions of the checks that write field
StringWriters(field) ==
  {i \in 1..Len(DeclaredChecks) : field \in DOMAIN StringWrites(DeclaredChecks[i])}

NumberWriters(field) ==
  {i \in 1..Len(DeclaredChecks) : field \in DOMAIN NumberWrites(DeclaredChecks[i])}

Last(positions) == CHOOSE i \in positions : \A j \in positions : j <= i

\* C18: a string node converts to type string; each of minLength, maxLength,
\* format and pattern is absent when no constraint writes it and otherwise holds
\* what the last constraint of the list that writes it gives (length writes both
\* lengths).
C18_StringLastWriteWins ==
  (Converted /\ Tagged(zodSchema, "ZodString"))
    => /\ schema.type = "string"
       /\ \A field \in {"minLength", "maxLength", "format", "pattern"} :
            IF StringWriters(field) = {} THEN ~Has(schema, field)
            ELSE /\ Has(schema, field)
                 /\ schema[field] = StringWrites(DeclaredChecks[Last(StringWriters(field))])[field]

\* a length after a min overwrites the minimum and writes the maximum
C18_Witness ==
  /\ Converted
  /\ zodSchema = StringNode(<<[kind |-> "min", value |-> 8], [kind |-> "length", value |-> 5]>>)
  /\ schema = [type |-> "string", minLength |-> 5, maxLength |-> 5]

\* C19: a number or integer node converts to type integer when it is the
\* integer variant or has an int constraint and to type number otherwise; an
\* inclusive min or max writes minimum or maximum, an exclusive one writes
\* exclusiveMinimum or exclusiveMaximum, multipleOf is copied, and no field is
\* present that no constraint writes.
C19_NumberConstraints ==
  (Converted /\ (Tagged(zodSchema, "ZodNumber") \/ Tagged(zodSchema, "ZodInt")))
    => /\ schema.type =
            (IF \/ Tagged(zodSchema, "ZodInt")
                \/ \E i \in 1..Len(DeclaredChecks) : DeclaredChecks[i].kind = "int"
             THEN "integer" ELSE "number")
       /\ \A field \in {"minimum", "maximum", "exclusiveMinimum", "exclusiveMaximum",
                        "multipleOf"} :
            IF NumberWriters(field) = {} THEN ~Has(schema, field)
            ELSE /\ Has(schema, field)
                 /\ schema[field] = NumberWrites(DeclaredChecks[Last(NumberWriters(field))])[field]

\* a number with an int constraint and an exclusive minimum
C19_Witness ==
  /\ Converted
  /\ zodSchema = NumberNode(<<[kind |-> "int"],
                              [kind |-> "min", value |-> 2, inclusive |-> FALSE]>>)
  /\ schema = [type |-> "integer", exclusiveMinimum |-> 2]

\* the item count the array declares in field f, Null when it declares none
DeclaredCount(f) == IF Has(zodSchema._def, f) THEN zodSchema._def[f] ELSE Null

\* C20: an array node converts to items equal to the conversion of its element,
\* with minItems (maxItems) equal to the declared minimum (maximum) count exactly
\* when one is declared, 0 included.
C20_ArrayItemCounts ==
  (Converted /\ Tagged(zodSchema, "ZodArray") /\ ~IsRaised(schema))
    => /\ schema.type = "array"
       /\ schema.items = convert(zodSchema._def.type)
       /\ Has(schema, "minItems") <=> DeclaredCount("minLength") # Null
       /\ Has(schema, "minItems") => schema.minItems = DeclaredCount("minLength").value
       /\ Has(schema, "maxItems") <=> DeclaredCount("maxLength") # Null
       /\ Has(schema, "maxItems") => schema.maxItems = DeclaredCount("maxLength").value

\* a declared minimum of 0 and no declared maximum
C20_Witness ==
  /\ Converted
  /\ Tagged(zodSchema, "ZodArray")
  /\ DeclaredCount("minLength") = [value |-> 0]
  /\ DeclaredCount("maxLength") = Null
  /\ schema = [type |-> "array", items |-> [type |-> "string"], minItems |-> 0]

\* the node is an optional, nullable or default wrapper
IsModifier(z) ==
  Tagged(z, "ZodOptional") \/ Tagged(z, "ZodNullable") \/ Tagged(z, "ZodDefault")

RECURSIVE Unmodified(_)
\* the node under the modifiers of z
Unmodified(z) == IF IsModifier(z) THEN Unmodified(z._def.innerType) ELSE z

RECURSIVE Modifiers(_)
\* the modifiers of z, from the outermost to the innermost
Modifiers(z) == IF IsModifier(z) THEN <<z>> \o Modifiers(z._def.innerType) ELSE <<>>

\* the positions of the modifiers with the tag
ModifiersTagged(z, t) == {i \in 1..Len(Modifiers(z)) : Tagged(Modifiers(z)[i], t)}

\* no modifier of z has a description, and every default producer returns
PlainModifiers(z) ==
  \A i \in 1..Len(Modifiers(z)) :
    /\ ~OwnDescription(Modifiers(z)[i])
    /\ Tagged(Modifiers(z)[i], "ZodDefault")
         => Has(Modifiers(z)[i]._def.defaultValue, "returns")

\* the value the defaults of z produce, when they all produce the same
OneDefault(z) ==
  \A i \in ModifiersTagged(z, "ZodDefault"), j \in ModifiersTagged(z, "ZodDefault") :
    Modifiers(z)[i]._def.defaultValue = Modifiers(z)[j]._def.defaultValue

DefaultOf(z) ==
  Modifiers(z)[CHOOSE i \in ModifiersTagged(z, "ZodDefault") : TRUE]._def.defaultValue.returns

\* C27: a chain of optional, nullable and default modifiers without descriptions
\* around N converts to convert(N) extended with nullable true iff the chain has
\* a nullable and with default v iff it has a default of value v, whatever the
\* order of the modifiers and wherever optional modifiers stand.
C27_ModifiersCommute ==
  (/\ Converted
   /\ IsModifier(zodSchema)
   /\ PlainModifiers(zodSchema)
   /\ OneDefault(zodSchema)
   /\ ~IsRaised(convert(Unmodified(zodSchema))))
    => schema =
         Assign(Assign(convert(Unmodified(zodSchema)),
                       IF ModifiersTagged(zodSchema, "ZodNullable") = {} THEN EmptyObject
                       ELSE [nullable |-> TRUE]),
                IF ModifiersTagged(zodSchema, "ZodDefault") = {} THEN EmptyObject
                ELSE [default |-> DefaultOf(zodSchema)])

\* default outside, nullable inside and an optional between them
C27_Witness ==
  /\ Converted
  /\ zodSchema = DefaultNode(OptionalNode(NullableNode(StringNode(<<>>))),
                             [returns |-> [string |-> "v"]])
  /\ schema = [type |-> "string", nullable |-> TRUE, default |-> [string |-> "v"]]

-----------------------------------------------------------------------------
(* Properties of the aggregator *)

Generated == pc = "generated"

\* the declaration's method in upper case, GET when it names none
DeclaredMethod ==
  IF Has(config, "method") /\ config.method # <<>> THEN toUpperCase(config.method)
  ELSE <<"G", "E", "T">>

\* the status key the declaration's method asks for
DeclaredSuccessCode ==
  IF DeclaredMethod = <<"P", "O", "S", "T">> THEN "201"
  ELSE IF DeclaredMethod = <<"D", "E", "L", "E", "T", "E">> THEN "204"
  ELSE "200"

\* the caller's overrides, empty when the declaration has none
DeclaredOverrides == IF Has(config, "responses") THEN config.responses ELSE EmptyObject

SuccessCodes == {"200", "201", "204"}

\* C6: before the overrides are applied the response keys are one success code,
\* 401 and 403 iff auth is set, 422 iff a body schema is declared, 404 iff a
\* params schema is declared, and 500.
C6_ComputedResponseKeys ==
  Generated
    => /\ DOMAIN responses \cap SuccessCodes = {DeclaredSuccessCode}
       /\ DOMAIN responses \ SuccessCodes =
            (IF Has(config, "auth") /\ config.auth THEN {"401", "403"} ELSE {})
            \cup (IF Has(config, "body") THEN {"422"} ELSE {})
            \cup (IF Has(config, "params") THEN {"404"} ELSE {})
            \cup {"500"}

\* auth and a body schema, no params schema: exactly the five keys
C6_Witness ==
  /\ Generated
  /\ Has(config, "auth") /\ Has(config, "body") /\ Has(config, "query")
  /\ ~Has(config, "params")
  /\ DOMAIN responses = {"201", "401", "403", "422", "500"}

\* C7: the final responses hold the override at every key of the override map
\* and the computed entry at every other key.
C7_OverridesTakePrecedence ==
  Generated
    => /\ DOMAIN operation.responses = DOMAIN responses \cup DOMAIN DeclaredOverrides
       /\ \A k \in DOMAIN DeclaredOverrides : operation.responses[k] = DeclaredOverrides[k]
       /\ \A k \in DOMAIN responses \ DOMAIN DeclaredOverrides :
            operation.responses[k] = responses[k]

\* a 422 override on a route without a body schema, next to a computed 404
C7_Witness ==
  /\ Generated
  /\ ~Has(config, "body")
  /\ Has(config, "params")
  /\ "422" \in DOMAIN DeclaredOverrides
  /\ "422" \notin DOMAIN responses
  /\ operation.responses["422"] = CustomResponse
  /\ operation.responses["404"] = Ref("#/components/responses/NotFoundError")

\* the schema is the success/data envelope around data
IsEnvelope(s, data) ==
  /\ Has(s, "type") /\ s.type = "object"
  /\ Has(s, "properties")
  /\ Len(s.properties) = 2
  /\ s.properties[1].key = "success"
  /\ s.properties[1].value.type = "boolean"
  /\ s.properties[2].key = "data"
  /\ s.properties[2].value = data

\* the data the envelope is to hold for the declaration's response hint
DeclaredData ==
  IF Has(config, "response") /\ Has(config.response, "_def")
  THEN convert(config.response)
  ELSE [type |-> "object"]

\* the JSON schema of a response, when it has one
HasJsonSchema(response) ==
  /\ Has(response, "content")
  /\ Has(response.content, "application/json")
  /\ Has(response.content["application/json"], "schema")

JsonSchema(response) == response.content["application/json"].schema

DeclaredDelete == DeclaredMethod = <<"D", "E", "L", "E", "T", "E">>

\* C8 as stated: unless the route is a DELETE without a response hint, the
\* success response carries the envelope schema, whose data is the converted
\* hint when the hint is a type node and an unconstrained object otherwise.
C8_SuccessIsEnvelope ==
  (Generated /\ ~(DeclaredDelete /\ ~Has(config, "response")))
    => LET success == operation.responses[DeclaredSuccessCode]
       IN HasJsonSchema(success) /\ IsEnvelope(JsonSchema(success), DeclaredData)

\* C8 amended: when no override is supplied at the success code, a route with a
\* response hint carries the envelope schema (data is the converted hint when
\* the hint is a type node, an unconstrained object otherwise), and a route
\* other than DELETE without a response hint carries a reference to the shared
\* Success component schema.
C8_SuccessIsEnvelopeOrSharedReference ==
  (Generated /\ DeclaredSuccessCode \notin DOMAIN DeclaredOverrides
             /\ ~(DeclaredDelete /\ ~Has(config, "response")))
    => LET success == operation.responses[DeclaredSuccessCode]
       IN /\ HasJsonSchema(success)
          /\ IF Has(config, "response")
             THEN IsEnvelope(JsonSchema(success), DeclaredData)
             ELSE JsonSchema(success) = Ref("#/components/schemas/Success")

\* a POST whose response hint is a type node: data is its conversion
C8_Witness ==
  /\ Generated
  /\ DeclaredMethod = <<"P", "O", "S", "T">>
  /\ Has(config, "response") /\ config.response = ResponseSchema
  /\ ~Has(config, "responses")
  /\ JsonSchema(operation.responses["201"]).properties[2].value =
       [type |-> "object",
        properties |-> <<[key |-> "id", value |-> [type |-> "string"]]>>,
        required |-> <<"id">>]

\* the 204 response of a DELETE: description only without a hint, envelope with one
DeleteShape(response) ==
  /\ Has(response, "description")
  /\ IF Has(config, "response")
     THEN HasJsonSchema(response) /\ IsEnvelope(JsonSchema(response), DeclaredData)
     ELSE ~Has(response, "content")

\* C9 as stated: the 204 response of every DELETE route has a description and
\* no content without a response hint, and the envelope schema with one.
C9_DeleteResponse ==
  (Generated /\ DeclaredDelete) => DeleteShape(operation.responses["204"])

\* C9 amended: the same, for every DELETE route whose overrides have no 204
\* entry; a 204 override replaces the response.
C9_DeleteResponseUnlessOverridden ==
  (Generated /\ DeclaredDelete)
    => /\ DeleteShape(responses["204"])
       /\ IF "204" \in DOMAIN DeclaredOverrides
          THEN operation.responses["204"] = DeclaredOverrides["204"]
          ELSE operation.responses["204"] = responses["204"]

\* a DELETE without a response hint and without overrides
C9_Witness ==
  /\ Generated
  /\ DeclaredDelete
  /\ ~Has(config, "response")
  /\ ~Has(config, "responses")
  /\ operation.responses["204"] = [description |-> "Successfully deleted"]

\* C10: the summary is the route's summary, or "<METHOD> <path>" when absent;
\* the description is the route's description, or else the operation's summary.
C10_SummaryAndDescription ==
  Generated
    => /\ operation.summary =
            (IF Has(config, "summary") THEN config.summary
             ELSE DeclaredMethod \o <<" ">> \o config.path)
       /\ Has(operation, "description")
       /\ operation.description =
            (IF Has(config, "description") THEN config.description
             ELSE operation.summary)

\* the first character of str in upper case
Capitalised(str) ==
  IF str = <<>> THEN <<>>
  ELSE <<Recase(str[1], LowerCaseLetters, UpperCaseLetters)>> \o Tail(str)

RECURSIVE SegmentsFrom(_, _, _)
\* the non-empty pieces of path between slashes, scanning from character i
SegmentsFrom(path, i, current) ==
  IF i > Len(path) THEN (IF current = <<>> THEN <<>> ELSE <<current>>)
  ELSE IF path[i] = "/"
  THEN (IF current = <<>> THEN <<>> ELSE <<current>>) \o SegmentsFrom(path, i + 1, <<>>)
  ELSE SegmentsFrom(path, i + 1, Append(current, path[i]))

\* the segment is a placeholder {name}
IsPlaceholder(segment) ==
  Len(segment) >= 2 /\ segment[1] = "{" /\ segment[Len(segment)] = "}"

RECURSIVE Concatenated(_)
Concatenated(pieces) ==
  IF pieces = <<>> THEN <<>> ELSE Head(pieces) \o Concatenated(Tail(pieces))

\* the lower-case method, then By and the capitalised name for each placeholder
\* {name} and the capitalised segment for every other segment
StatedId(method, path) ==
  LET segments == SegmentsFrom(path, 1, <<>>)
  IN toLowerCase(method) \o
     Concatenated([i \in 1..Len(segments) |->
       IF IsPlaceholder(segments[i])
       THEN <<"B", "y">> \o Capitalised(SubSeq(segments[i], 2, Len(segments[i]) - 1))
       ELSE Capitalised(segments[i])])

\* C11: the operation identifier is the lower-case method followed by
\* the capitalised non-empty path segments, a placeholder {name} giving By and
\* the capitalised name.
C11_OperationId ==
  Generated => operation.operationId = StatedId(DeclaredMethod, config.path)

\* C12: the operation has a request body iff the method is POST, PUT or PATCH
\* and a body schema is declared; the request body is required, its only
\* content type is application/json and its schema is the converted body schema.
C12_RequestBody ==
  Generated
    => /\ Has(operation, "requestBody")
            <=> /\ Has(config, "body")
                /\ DeclaredMethod \in {<<"P", "O", "S", "T">>, <<"P", "U", "T">>,
                                       <<"P", "A", "T", "C", "H">>}
       /\ Has(operation, "requestBody")
            => /\ DOMAIN operation.requestBody = {"required", "content"}
               /\ operation.requestBody.required = TRUE
               /\ DOMAIN operation.requestBody.content = {"application/json"}
               /\ operation.requestBody.content["application/json"] =
                    [schema |-> convert(config.body)]

\* a PUT with a body schema carries the converted schema
C12_Witness ==
  /\ Generated
  /\ DeclaredMethod = <<"P", "U", "T">>
  /\ Has(config, "body")
  /\ Has(operation, "requestBody")
  /\ operation.requestBody.content["application/json"].schema.required = <<"email">>

\* the properties of the converted schema declared in field f, none when unset
DeclaredProperties(f) ==
  IF Has(config, f) /\ Has(convert(config[f]), "properties")
  THEN convert(config[f]).properties
  ELSE <<>>

\* the names the converted query schema lists as required
RequiredQueryNames ==
  IF Has(config, "query") /\ Has(convert(config.query), "required")
  THEN {convert(config.query).required[i] : i \in 1..Len(convert(config.query).required)}
  ELSE {}

\* C13: the parameters are one entry per property of the converted params
\* schema, in path and required, followed by one entry per property of the
\* converted query schema, in query and required iff the name is in the
\* converted required list; there is no parameters key when the list is empty.
C13_Parameters ==
  Generated
    => LET path == DeclaredProperties("params")
           query == DeclaredProperties("query")
       IN /\ Has(operation, "parameters") <=> Len(path) + Len(query) > 0
          /\ Has(operation, "parameters")
               => /\ Len(operation.parameters) = Len(path) + Len(query)
                  /\ \A i \in 1..Len(path) :
                       /\ operation.parameters[i].name = path[i].key
                       /\ operation.parameters[i]["in"] = "path"
                       /\ operation.parameters[i].required = TRUE
                       /\ operation.parameters[i].schema = path[i].value
                  /\ \A i \in 1..Len(query) :
                       /\ operation.parameters[Len(path) + i].name = query[i].key
                       /\ operation.parameters[Len(path) + i]["in"] = "query"
                       /\ operation.parameters[Len(path) + i].required
                            = (query[i].key \in RequiredQueryNames)
                       /\ operation.parameters[Len(path) + i].schema = query[i].value

\* an optional path property is required, an optional query property is not
C13_Witness ==
  /\ Generated
  /\ Has(config, "params") /\ Has(config, "query")
  /\ Has(operation, "parameters")
  /\ Len(operation.parameters) = 4
  /\ operation.parameters[2].name = "tab"
  /\ operation.parameters[2].required = TRUE
  /\ operation.parameters[3].name = "page"
  /\ operation.parameters[3].required = FALSE
  /\ operation.parameters[4].required = TRUE

\* the keys of successful responses
SuccessKeys == {"200", "201", "202", "203", "204", "205", "206"}

\* C14: before the overrides are applied there is exactly one success key: 201
\* for POST, 204 for DELETE, 200 for any other method.
C14_SuccessKey ==
  Generated
    => /\ Cardinality(DOMAIN responses \cap SuccessKeys) = 1
       /\ DeclaredMethod = <<"P", "O", "S", "T">> => "201" \in DOMAIN responses
       /\ DeclaredMethod = <<"D", "E", "L", "E", "T", "E">> => "204" \in DOMAIN responses
       /\ DeclaredMethod \notin {<<"P", "O", "S", "T">>, <<"D", "E", "L", "E", "T", "E">>}
            => "200" \in DOMAIN responses

\* a DELETE with a 200 override still computes 204 alone
C14_Witness ==
  /\ Generated
  /\ DeclaredMethod = <<"D", "E", "L", "E", "T", "E">>
  /\ "200" \in DOMAIN DeclaredOverrides
  /\ DOMAIN responses \cap SuccessKeys = {"204"}

\* the method keys of the five helpers
MethodKeys ==
  { <<"g", "e", "t">>, <<"p", "o", "s", "t">>, <<"p", "u", "t">>,
    <<"p", "a", "t", "c", "h">>, <<"d", "e", "l", "e", "t", "e">> }

\* C15: whatever the letter case of the declared method, the paths mapping holds
\* under the route's path one method key, the lower-case one, and under it the
\* operation that the same declaration with the upper-case method produces.
C15_MethodCaseInsensitive ==
  Generated
    => /\ DOMAIN paths = {config.path}
       /\ \E key \in MethodKeys :
            /\ DOMAIN paths[config.path] = {key}
            /\ toUpperCase(key) = DeclaredMethod
            /\ paths[config.path][key] =
                 generateOperation(createRoute(DeclaredMethod, config.path, config))

\* a body declared with method "Post" is documented under post, with a request
\* body and a 201
C15_Witness ==
  /\ Generated
  /\ Has(config, "method")
  /\ config.method = <<"P", "o", "s", "t">>
  /\ Has(config, "body")
  /\ DOMAIN paths[config.path] = {<<"p", "o", "s", "t">>}
  /\ Has(paths[config.path][<<"p", "o", "s", "t">>], "requestBody")
  /\ "201" \in DOMAIN paths[config.path][<<"p", "o", "s", "t">>].responses

\* C25 as stated: before the overrides, a 422 response is computed only if the
\* operation has a request body.
C25_ValidationErrorOnlyWithRequestBody ==
  Generated => ("422" \in DOMAIN responses => Has(operation, "requestBody"))

\* C25 amended: before the overrides, a 422 response is computed exactly when
\* the route declares a body schema, whatever its method; an operation with a
\* request body therefore has it, and so has a GET or DELETE route that declares
\* a body schema, whose operation has no request body.
C25_ValidationErrorIffBodySchema ==
  Generated
    => /\ "422" \in DOMAIN responses <=> Has(config, "body")
       /\ Has(operation, "requestBody") => "422" \in DOMAIN responses
       /\ (Has(config, "body") /\ DeclaredMethod \in {<<"G", "E", "T">>,
                                                     <<"D", "E", "L", "E", "T", "E">>})
            => ~Has(operation, "requestBody")

\* a GET with a body schema: a computed 422 and no request body
C25_Witness ==
  /\ Generated
  /\ DeclaredMethod = <<"G", "E", "T">>
  /\ Has(config, "body")
  /\ "422" \in DOMAIN responses
  /\ ~Has(operation, "requestBody")

\* the names of the placeholders of a path template
Placeholders(path) ==
  {SubSeq(SegmentsFrom(path, 1, <<>>)[i], 2, Len(SegmentsFrom(path, 1, <<>>)[i]) - 1) :
     i \in {j \in 1..Len(SegmentsFrom(path, 1, <<>>)) :
              IsPlaceholder(SegmentsFrom(path, 1, <<>>)[j])}}

\* a property name as a sequence of characters
Spelled(name) ==
  CASE name = "id" -> <<"i", "d">>
    [] name = "tab" -> <<"t", "a", "b">>
    [] name = "page" -> <<"p", "a", "g", "e">>
    [] name = "q" -> <<"q">>

\* the names of the operation's parameters in the path
PathParameterNames ==
  IF Has(operation, "parameters")
  THEN {Spelled(operation.parameters[i].name) :
          i \in {j \in 1..Len(operation.parameters) : operation.parameters[j]["in"] = "path"}}
  ELSE {}

\* C26: for a route with a params schema, the names of the parameters in the
\* path are exactly the placeholders of the route's path template.
C26_PathParametersArePlaceholders ==
  (Generated /\ Has(config, "params")) => PathParameterNames = Placeholders(config.path)

-----------------------------------------------------------------------------
(* Properties of document builds *)

\* the caller has its document
Built(c) == builds # Undefined /\ builds[c].pc = "done"

C22_TableNeverModified ==
  [][/\ routes' = routes
     /\ \A c \in Callers :
          builds'[c].pc = "done" => builds'[c].paths = generateDocs(routes)]_vars

\* one caller has its document while the other is in the middle of the table
C22_Witness ==
  /\ Built("a")
  /\ builds["b"].pc = "loop"
  /\ builds["b"].i = 2
  /\ Len(routes) = 2
  /\ routes[1].customResponses # EmptyObject
  /\ builds["a"].paths = generateDocs(routes)

\* the positions of the routes with the path and the method
RoutesAt(path, method) ==
  {i \in 1..Len(routes) : routes[i].path = path /\ routes[i].method = method}

\* C23: the document has an operation at paths[path][method] for every route of
\* the table and no other entry; routes that share a path are under one path
\* key; the operation of a path and method is the one of the last such route.
C23_DocumentEntries ==
  \A c \in Callers :
    Built(c)
      => /\ DOMAIN builds[c].paths = {routes[i].path : i \in 1..Len(routes)}
         /\ \A path \in DOMAIN builds[c].paths :
              /\ DOMAIN builds[c].paths[path] =
                   {routes[i].method : i \in {j \in 1..Len(routes) : routes[j].path = path}}
              /\ \A method \in DOMAIN builds[c].paths[path] :
                   builds[c].paths[path][method] =
                     generateOperation(routes[Last(RoutesAt(path, method))])

\* two GET /users routes: one path key, one method key, the later route's summary
C23_Witness ==
  /\ Built("a")
  /\ Len(routes) = 2
  /\ routes[1].path = routes[2].path
  /\ routes[1].method = routes[2].method
  /\ Has(routes[1], "summary") /\ Has(routes[2], "summary")
  /\ routes[1].summary = <<"L", "i", "s", "t">>
  /\ routes[2].summary = <<"A", "l", "l">>
  /\ DOMAIN builds["a"].paths = {routes[1].path}
  /\ DOMAIN builds["a"].paths[routes[1].path] = {<<"g", "e", "t">>}
  /\ builds["a"].paths[routes[1].path][<<"g", "e", "t">>].summary = <<"A", "l", "l">>

\* C24: the operations of a document that are at different paths or methods
\* have different operation identifiers.
C24_OperationIdsUnique ==
  \A c \in Callers :
    Built(c)
      => \A p1 \in DOMAIN builds[c].paths, p2 \in DOMAIN builds[c].paths :
           \A m1 \in DOMAIN builds[c].paths[p1], m2 \in DOMAIN builds[c].paths[p2] :
             (p1 # p2 \/ m1 # m2)
               => builds[c].paths[p1][m1].operationId # builds[c].paths[p2][m2].operationId

====
